---- MODULE Spec2Model ----
(***************************************************************************)
(* Job lifecycle of the YouTube downloader backend (src/app.py): the       *)
(* process-wide `downloads` registry, the background thread that           *)
(* download_video runs per job, the engine's progress callbacks, and the   *)
(* HTTP handlers start_download and get_progress that run concurrently     *)
(* with the threads.  There is no lock in the source: every dictionary     *)
(* write of a thread is a step of its own, and a handler may run between   *)
(* any two of them.                                                        *)
(*                                                                         *)
(* Representation.  Strings that the code transforms are sequences: a      *)
(* title is a sequence of code points, a path a sequence of one-character  *)
(* strings; the empty string '' is << >>.  `progress` is held in tenths of *)
(* a percent, because round(percent, 1) keeps one decimal: the source's    *)
(* 100 is 1000 here and its 50.0 is 500.                                   *)
(***************************************************************************)
EXTENDS Integers, Sequences, FiniteSets, TLC

VARIABLES
    downloads,   \* the registry: download_id -> record (a dict), app.py:20
    pc,          \* per id: where the job's background thread stands
    local,       \* per id: the thread's local variables
    calls,       \* per id: number of extract_info(url, download=True) calls made
    outcomes,    \* per id: how each of those calls ended, "ok" or str(e)
    slept,       \* per id: the durations passed to time.sleep, in order
    retryWrites, \* per id: number of executions of line 156
    hookCalls,   \* per id: number of progress callbacks the engine has delivered
    response,    \* the last HTTP response sent by a handler
    seenTerminal,\* per id: the first terminal record a poll returned
    pool,        \* the identifiers uuid4 has not handed out yet
    stage,       \* the pure functions' runs: which step has been applied
    input,       \* the pure functions' runs: the argument
    result       \* the pure functions' runs: the value computed so far

\* the state of the functions that are checked on their own (format
\* selection, sanitize_filename); the jobs leave it alone
pureVars == <<stage, input, result>>

\* the state of the jobs and the handlers
jobVars == <<downloads, pc, local, calls, outcomes, slept, retryWrites,
             hookCalls, response, seenTerminal, pool>>

vars == <<downloads, pc, local, calls, outcomes, slept, retryWrites, hookCalls,
          response, seenTerminal, pool, stage, input, result>>

----------------------------------------------------------------------------
(* Bounds of the model *)

\* progress callbacks the engine delivers to one job, over all its attempts
MaxHooks == 2

\* progress callbacks per job in the runs with several jobs
MaxConcurrentHooks == 1

\* the identifiers of the model
DownloadIds == {"id1", "id2"}

\* the identifiers uuid4 hands out in a run of Spec: one job and its pollers
SingleJob == {"id1"}

\* an identifier no job ever gets (a poll for a job that does not exist)
UnknownId == "id0"

----------------------------------------------------------------------------
(* Python values *)

None == "None"

\* a retry loop that allows one attempt more
max_retries_OneMore == 3 + 1

max_retries == 3

QualityCeiling == 4320

Statuses == {"starting", "downloading", "retrying", "processing",
             "completed", "error"}

Terminal == {"completed", "error"}

\* dict item assignment d[k] = v: adds the key when it is absent
SetItem(d, k, v) ==
    [x \in DOMAIN d \cup {k} |-> IF x = k THEN v ELSE d[x]]

RECURSIVE Pow2(_)
Pow2(n) == IF n = 0 THEN 1 ELSE 2 * Pow2(n - 1)

----------------------------------------------------------------------------
(* sanitize_filename, over sequences of code points *)

\* [<>:"/\\|?*]
ReservedChars == {60, 62, 58, 34, 47, 92, 124, 63, 42}

\* what \s and str.strip() take for whitespace (the members used here: the
\* ASCII ones and the no-break space)
Whitespace == {9, 10, 11, 12, 13, 32, 160}

\* the string s without its characters that are in drop
Remove(s, drop) ==
    LET Kept(c) == c \notin drop
    IN  SelectSeq(s, Kept)

\* line 32: the filter keeps the code points c with
\* ord(c) < 65536 and (ord(c) < 0x1F600 or ord(c) > 0x1FAFF)
Filter(s) ==
    Remove(s, {c \in {s[i] : i \in 1..Len(s)} :
                  ~(c < 65536 /\ (c < 128512 \/ c > 129791))})

\* line 34: [\U00010000-\U0010ffff]
Astral == 65536..1114111

\* re.sub(r'\s+', ' ', s): every maximal run of whitespace becomes one space
\* (the last character of a run becomes the space, the others go)
CollapseSpaces(s) ==
    LET Gone == 0 - 1
        t == [i \in 1..Len(s) |->
                IF s[i] \in Whitespace
                THEN IF i < Len(s) /\ s[i + 1] \in Whitespace THEN Gone ELSE 32
                ELSE s[i]]
        Kept(c) == c # Gone
    IN  SelectSeq(t, Kept)

LStrip(s) ==
    LET solid == {i \in 1..Len(s) : s[i] \notin Whitespace}
    IN  IF solid = {} THEN << >>
        ELSE SubSeq(s, CHOOSE i \in solid : \A j \in solid : i <= j, Len(s))

RStrip(s) ==
    LET solid == {i \in 1..Len(s) : s[i] \notin Whitespace}
    IN  IF solid = {} THEN << >>
        ELSE SubSeq(s, 1, CHOOSE i \in solid : \A j \in solid : i >= j)

Strip(s) == RStrip(LStrip(s))

\* the whitespace clean-up done first and the removals after it
sanitize_filename_CollapseFirst(filename) ==
    Remove(Filter(Remove(Strip(CollapseSpaces(filename)), ReservedChars)), Astral)

sanitize_filename(filename) ==
    Strip(CollapseSpaces(
        Remove(Filter(Remove(filename, ReservedChars)), Astral)))

----------------------------------------------------------------------------
(* What the extraction engine can hand back.  The engine is external: each *)
(* of its results is an input of the model.                                *)

\* "video", the default of info.get('title', 'video')
DefaultTitle == <<118, 105, 100, 101, 111>>

\* results of extract_info(url, download=False): a title with a reserved
\* character, a whitespace run and an emoji, and an info without a title
MetaInfos ==
    { [has_title |-> TRUE,  title |-> <<60, 97, 32, 32, 98, 128512>>,
       thumbnail |-> "thumb", duration |-> 60],
      [has_title |-> FALSE, title |-> << >>,
       thumbnail |-> "", duration |-> 0] }

\* the dictionaries the engine passes to the progress hook; a total_bytes
\* of 0 stands for one that is absent, None or 0 (all falsy for `or`), a
\* total_bytes_estimate of 0 for one that is absent or 0
HookEvents ==
    { [status |-> "downloading", total_bytes |-> 4, total_bytes_estimate |-> 0,
       downloaded_bytes |-> 2, speed |-> 7, eta |-> 3],
      [status |-> "downloading", total_bytes |-> 0, total_bytes_estimate |-> 0,
       downloaded_bytes |-> 2, speed |-> 7, eta |-> 3],
      [status |-> "downloading", total_bytes |-> 0, total_bytes_estimate |-> 8,
       downloaded_bytes |-> 2, speed |-> 0, eta |-> 9],
      [status |-> "downloading", total_bytes |-> 4, total_bytes_estimate |-> 0,
       downloaded_bytes |-> 6, speed |-> 0, eta |-> 0],
      [status |-> "finished", total_bytes |-> 4, total_bytes_estimate |-> 0,
       downloaded_bytes |-> 4, speed |-> 0, eta |-> 0] }

\* results of ydl.prepare_filename(info) under outtmpl '%(title)s.%(ext)s'
EnginePaths == { <<"t", ".", "w">>, <<"a", ".", "b", ".", "w">> }

\* str(e) of the exceptions the engine raises
WinError32Msg == "[WinError 32] The process cannot access the file"
BeingUsedMsg  == "ERROR: file is being used by another process"
OtherMsg      == "ERROR: HTTP Error 403: Forbidden"

ErrorMessages == {WinError32Msg, BeingUsedMsg, OtherMsg}

\* 'WinError 32' in error_str
HasWinError32(error_str) == error_str \in {WinError32Msg}

\* 'being used by another process' in error_str
HasBeingUsed(error_str) == error_str \in {BeingUsedMsg}

\* the JSON bodies a client can send to POST /api/download; has_quality is
\* FALSE when the 'quality' key is absent (data.get('quality') is None)
Requests ==
    { [url |-> u, has_quality |-> h, quality |-> q] :
        u \in {"", "u"}, h \in {TRUE}, q \in {0, 720, 10000} }
    \cup { [url |-> "u", has_quality |-> FALSE, quality |-> 0] }

----------------------------------------------------------------------------
(* The pure parts of download_video and progress_hook.  A thread's writes  *)
(* to its record are sequences of <<key, value>>, in the order of the      *)
(* source's assignment statements; the thread performs them one per step.  *)

\* the dict literal of lines 64-72 (no 'thumbnail' or 'duration' key yet)
NewRecord ==
    [status |-> "starting", progress |-> 0, title |-> << >>,
     filename |-> << >>, error |-> None, speed |-> 0, eta |-> 0]

\* a normalisation that forgets the cap at 8K
ClampQuality_NoCap(req) ==
    IF ~req.has_quality THEN QualityCeiling ELSE req.quality

\* lines 269-272 of start_download
ClampQuality(req) ==
    IF ~req.has_quality THEN QualityCeiling
    ELSE IF req.quality > QualityCeiling THEN QualityCeiling
    ELSE req.quality

\* round((downloaded / total) * 100, 1), in tenths of a percent; round()
\* rounds a tie to the even neighbour
Percent(downloaded, total) ==
    LET n == 1000 * downloaded
        q == n \div total
        r == n % total
    IN  IF 2 * r < total THEN q
        ELSE IF 2 * r > total THEN q + 1
        ELSE IF q % 2 = 0 THEN q ELSE q + 1

\* a hook that takes the engine's "finished" for the end of the job
progress_hook_FinishedCompletes(d) ==
    IF d.status = "finished"
    THEN << <<"progress", 1000>>, <<"status", "completed">> >>
    ELSE << >>

\* a hook that copies the engine's status word into the record
progress_hook_CopiesStatus(d) ==
    IF d.status = "finished"
    THEN << <<"progress", 1000>>, <<"status", d.status>> >>
    ELSE << >>

\* a hook that resets progress when the total is unknown
progress_hook_ZeroOnUnknown(d) ==
    IF d.status = "downloading"
    THEN LET total == IF d.total_bytes # 0 THEN d.total_bytes
                      ELSE d.total_bytes_estimate
         IN  IF total > 0
             THEN << <<"progress", Percent(d.downloaded_bytes, total)>>,
                     <<"speed", d.speed>>,
                     <<"eta", d.eta>> >>
             ELSE << <<"progress", 0>> >>
    ELSE IF d.status = "finished"
    THEN << <<"progress", 1000>>, <<"status", "processing">> >>
    ELSE << >>

\* progress_hook(d, download_id): the writes it makes, in order
progress_hook(d) ==
    IF d.status = "downloading"
    THEN LET total == IF d.total_bytes # 0 THEN d.total_bytes
                      ELSE d.total_bytes_estimate
         IN  IF total > 0
             THEN << <<"progress", Percent(d.downloaded_bytes, total)>>,
                     <<"speed", d.speed>>,
                     <<"eta", d.eta>> >>
             ELSE << >>
    ELSE IF d.status = "finished"
    THEN << <<"progress", 1000>>, <<"status", "processing">> >>
    ELSE << >>

\* lines 126-130: the writes after the metadata fetch
MetaWrites(info) ==
    << <<"title", sanitize_filename(IF info.has_title THEN info.title
                                    ELSE DefaultTitle)>>,
       <<"thumbnail", info.thumbnail>>,
       <<"duration", info.duration>>,
       <<"status", "downloading">> >>

\* index of the last "." of a path, 0 when there is none
RECURSIVE LastDot(_)
LastDot(path) ==
    IF path = << >> THEN 0
    ELSE IF path[Len(path)] = "." THEN Len(path)
    ELSE LastDot(SubSeq(path, 1, Len(path) - 1))

\* lines 140-143: filename.rsplit('.', 1)[0] + '.mp3' for audio
OutputFilename(path, quality_height) ==
    IF quality_height = 0
    THEN (IF LastDot(path) = 0 THEN path
          ELSE SubSeq(path, 1, LastDot(path) - 1)) \o <<".", "m", "p", "3">>
    ELSE path

\* the success path with status written first
SuccessWrites_StatusFirst(filename) ==
    << <<"status", "completed">>,
       <<"filename", filename>>,
       <<"progress", 1000>> >>

\* lines 144-146: the writes of the success path
SuccessWrites(filename) ==
    << <<"filename", filename>>,
       <<"status", "completed">>,
       <<"progress", 1000>> >>

\* a success path without its return: the retry loop goes on
AfterSuccess_NoReturn == "attempt"

\* line 147: return, the thread ends after the success writes
AfterSuccess == "done"

\* a handler that takes every exception for a file-locking error
IsFileAccessError_Any(error_str) == TRUE

\* line 152: is this the Windows file-locking error
IsFileAccessError(error_str) ==
    HasWinError32(error_str) \/ HasBeingUsed(error_str)

\* lines 152-153: sleep and try again, or re-raise
ShouldRetry(error_str, attempt) ==
    IsFileAccessError(error_str) /\ attempt < max_retries - 1

\* 2 * attempt written for 2 ** attempt
BackoffDelay_Product(attempt) == 2 * attempt

\* line 155: the argument of time.sleep
BackoffDelay(attempt) == Pow2(attempt)

\* line 156, after the sleep
RetryWrites == << <<"status", "retrying">> >>

\* a handler that records the message and forgets the status
ErrorWrites_NoStatus(error_str) ==
    << <<"error", error_str>> >>

\* lines 164-166: the top-level handler
ErrorWrites(error_str) ==
    << <<"status", "error">>,
       <<"error", error_str>> >>

----------------------------------------------------------------------------
(* State *)

\* no progress hook is running
NoEvent ==
    [status |-> "none", total_bytes |-> 0, total_bytes_estimate |-> 0,
     downloaded_bytes |-> 0, speed |-> 0, eta |-> 0]

\* a thread's locals: quality_height, the loop variable attempt, the caught
\* exception's message e, the record writes still to make, and where the
\* thread goes when they are made; d is the argument of the progress hook
\* while the hook runs
NoLocals ==
    [quality_height |-> 0, attempt |-> 0, e |-> None,
     pending |-> << >>, next |-> "", d |-> NoEvent]

NoResponse == [op |-> "none", id |-> "", code |-> 0, body |-> [none |-> TRUE]]

Init ==
    /\ downloads = [id \in {} |-> NewRecord]
    /\ pc = [id \in DownloadIds |-> "unused"]
    /\ local = [id \in DownloadIds |-> NoLocals]
    /\ calls = [id \in DownloadIds |-> 0]
    /\ outcomes = [id \in DownloadIds |-> << >>]
    /\ slept = [id \in DownloadIds |-> << >>]
    /\ retryWrites = [id \in DownloadIds |-> 0]
    /\ hookCalls = [id \in DownloadIds |-> 0]
    /\ response = NoResponse
    /\ seenTerminal = [id \in DownloadIds |-> {}]
    /\ pool = SingleJob
    /\ stage = "off" /\ input = << >> /\ result = << >>

\* the thread of id goes on to make the writes ws, those of the progress
\* hook called with d (NoEvent: the thread's own), and then to continue at nxt
WritingFor(id, ws, nxt, d) ==
    IF ws = << >>
    THEN /\ pc' = [pc EXCEPT ![id] = nxt]
         /\ local' = [local EXCEPT ![id].pending = << >>, ![id].next = "",
                                   ![id].d = NoEvent]
    ELSE /\ pc' = [pc EXCEPT ![id] = "writing"]
         /\ local' = [local EXCEPT ![id].pending = ws, ![id].next = nxt,
                                   ![id].d = d]

\* the thread of id goes on to make the writes ws and then to continue at nxt
Writing(id, ws, nxt) == WritingFor(id, ws, nxt, NoEvent)

\* a module-level "current download" instead of the download_id argument
RecordOf_Current(id) == "id1"

\* downloads[download_id]: the key a thread reads and writes is its own
\* download_id argument (lines 64, 95, 127-166)
RecordOf(id) == id

----------------------------------------------------------------------------
(* HTTP handlers *)

\* POST /api/download, lines 259-285
start_download(req) ==
    IF req.url = ""
    THEN /\ response' = [op |-> "download", id |-> "", code |-> 400,
                         body |-> [error |-> "No URL provided"]]
         /\ UNCHANGED <<downloads, pc, local, calls, outcomes, slept, retryWrites,
                        hookCalls, seenTerminal, pool>>
         /\ UNCHANGED pureVars
    ELSE \E id \in pool :
            /\ pool' = pool \ {id}
            /\ pc' = [pc EXCEPT ![id] = "spawned"]
            /\ local' = [local EXCEPT
                            ![id].quality_height = ClampQuality(req)]
            /\ response' = [op |-> "download", id |-> id, code |-> 200,
                            body |-> [download_id |-> id]]
            /\ UNCHANGED <<downloads, calls, outcomes, slept, retryWrites, hookCalls,
                           seenTerminal>>
            /\ UNCHANGED pureVars

\* GET /api/progress/<download_id>, lines 288-294
get_progress(download_id) ==
    /\ IF download_id \notin DOMAIN downloads
       THEN /\ response' = [op |-> "progress", id |-> download_id, code |-> 404,
                            body |-> [error |-> "Download not found"]]
            /\ UNCHANGED seenTerminal
       ELSE /\ response' = [op |-> "progress", id |-> download_id, code |-> 200,
                            body |-> downloads[download_id]]
            /\ seenTerminal' =
                 IF /\ downloads[download_id].status \in Terminal
                    /\ seenTerminal[download_id] = {}
                 THEN [seenTerminal EXCEPT
                          ![download_id] = {downloads[download_id]}]
                 ELSE seenTerminal
    /\ UNCHANGED <<downloads, pc, local, calls, outcomes, slept, retryWrites, hookCalls,
                   pool>>
    /\ UNCHANGED pureVars

\* index of the last "/" of a path, 0 when there is none
RECURSIVE LastSlash(_)
LastSlash(path) ==
    IF path = << >> THEN 0
    ELSE IF path[Len(path)] = "/" THEN Len(path)
    ELSE LastSlash(SubSeq(path, 1, Len(path) - 1))

\* os.path.basename
Basename(path) == SubSeq(path, LastSlash(path) + 1, Len(path))

\* str.lower, on the characters of the paths
LowerChar(c) ==
    CASE c = "M" -> "m" [] c = "P" -> "p" [] c = "W" -> "w"
      [] c = "T" -> "t" [] c = "A" -> "a" [] c = "B" -> "b"
      [] OTHER -> c

Lower(name) == [i \in 1..Len(name) |-> LowerChar(name[i])]

\* str.endswith
EndsWith(name, suffix) ==
    /\ Len(name) >= Len(suffix)
    /\ SubSeq(name, Len(name) - Len(suffix) + 1, Len(name)) = suffix

\* lines 311-320: the MIME type and the name the file is offered under (the
\* two forms of it in Content-Disposition are encodings of this name)
Attachment(path) ==
    LET filename == Basename(path)
    IN  IF EndsWith(Lower(filename), <<".", "m", "p", "3">>)
        THEN [mimetype |-> "audio/mpeg", filename |-> filename]
        ELSE [mimetype |-> "video/mp4",
              filename |-> IF EndsWith(Lower(filename), <<".", "m", "p", "4">>)
                           THEN filename
                           ELSE filename \o <<".", "m", "p", "4">>]

\* a gate that asks for a file name instead of the status
NotCompleted_ByFilename(download) == download.filename = << >>

\* line 305: the status gate of get_file
NotCompleted(download) == download.status # "completed"

\* GET /api/file/<download_id>, lines 297-333; exists is what
\* os.path.exists(download['filename']) answers
get_file(download_id, exists) ==
    /\ response' =
         IF download_id \notin DOMAIN downloads
         THEN [op |-> "file", id |-> download_id, code |-> 404,
               body |-> [error |-> "Download not found"]]
         ELSE IF NotCompleted(downloads[download_id])
         THEN [op |-> "file", id |-> download_id, code |-> 400,
               body |-> [error |-> "Download not completed"]]
         ELSE IF ~exists
         THEN [op |-> "file", id |-> download_id, code |-> 404,
               body |-> [error |-> "File not found"]]
         ELSE [op |-> "file", id |-> download_id, code |-> 200,
               body |-> [file |-> downloads[download_id].filename,
                         attachment |->
                             Attachment(downloads[download_id].filename)]]
    /\ UNCHANGED <<downloads, pc, local, calls, outcomes, slept, retryWrites,
                   hookCalls, seenTerminal, pool>>
    /\ UNCHANGED pureVars

----------------------------------------------------------------------------
(* The background thread of one job: download_video, lines 55-166 *)

\* lines 64-72: the thread's first statement creates the record
CreateRecord(id) ==
    /\ pc[id] = "spawned"
    /\ downloads' = SetItem(downloads, RecordOf(id), NewRecord)
    /\ pc' = [pc EXCEPT ![id] = "fetch"]
    /\ UNCHANGED <<local, calls, outcomes, slept, retryWrites, hookCalls, response,
                   seenTerminal, pool>>
    /\ UNCHANGED pureVars

\* line 125 returns: extract_info(url, download=False) gives info
FetchOk(id, info) ==
    /\ pc[id] = "fetch"
    /\ Writing(id, MetaWrites(info), "attempt")
    /\ UNCHANGED <<downloads, calls, outcomes, slept, retryWrites, hookCalls, response,
                   seenTerminal, pool>>
    /\ UNCHANGED pureVars

\* line 125 raises: caught at line 164
FetchFail(id, msg) ==
    /\ pc[id] = "fetch"
    /\ Writing(id, ErrorWrites(msg), "done")
    /\ UNCHANGED <<downloads, calls, outcomes, slept, retryWrites, hookCalls, response,
                   seenTerminal, pool>>
    /\ UNCHANGED pureVars

\* one assignment downloads[download_id][key] = value
Write(id) ==
    /\ pc[id] = "writing"
    /\ LET w == Head(local[id].pending)
       IN  /\ downloads' = [downloads EXCEPT
                               ![RecordOf(id)] =
                                   SetItem(downloads[RecordOf(id)], w[1], w[2])]
           /\ retryWrites' =
                IF w \in {RetryWrites[i] : i \in 1..Len(RetryWrites)}
                THEN [retryWrites EXCEPT ![id] = @ + 1]
                ELSE retryWrites
    /\ WritingFor(id, Tail(local[id].pending), local[id].next, local[id].d)
    /\ UNCHANGED <<calls, outcomes, slept, hookCalls, response, seenTerminal, pool>>
    /\ UNCHANGED pureVars

\* lines 136-139: the next iteration of the retry loop calls
\* extract_info(url, download=True); line 162 when the loop has run out
BeginAttempt(id) ==
    /\ pc[id] = "attempt"
    /\ IF local[id].attempt < max_retries
       THEN /\ pc' = [pc EXCEPT ![id] = "download"]
            /\ calls' = [calls EXCEPT ![id] = @ + 1]
            /\ UNCHANGED local
       ELSE /\ Writing(id, ErrorWrites(local[id].e), "done")
            /\ UNCHANGED calls
    /\ UNCHANGED <<downloads, outcomes, slept, retryWrites, hookCalls, response,
                   seenTerminal, pool>>
    /\ UNCHANGED pureVars

\* the engine calls the progress hook (line 95) during the download call
HookCall(id, d) ==
    /\ pc[id] = "download"
    /\ hookCalls[id] < MaxHooks
    /\ hookCalls' = [hookCalls EXCEPT ![id] = @ + 1]
    /\ WritingFor(id, progress_hook(d), "download", d)
    /\ UNCHANGED <<downloads, calls, outcomes, slept, retryWrites, response,
                   seenTerminal, pool>>
    /\ UNCHANGED pureVars

\* lines 139-143: the download call returns and the output path is computed
DownloadOk(id, path) ==
    /\ pc[id] = "download"
    /\ Writing(id, SuccessWrites(OutputFilename(path,
                                   local[id].quality_height)), AfterSuccess)
    /\ outcomes' = [outcomes EXCEPT ![id] = Append(@, "ok")]
    /\ UNCHANGED <<downloads, calls, slept, retryWrites, hookCalls, response,
                   seenTerminal, pool>>
    /\ UNCHANGED pureVars

\* lines 148-159: the download call raises
DownloadFail(id, msg) ==
    /\ pc[id] = "download"
    /\ IF ShouldRetry(msg, local[id].attempt)
       THEN /\ pc' = [pc EXCEPT ![id] = "sleep"]
            /\ local' = [local EXCEPT ![id].e = msg]
            /\ slept' = [slept EXCEPT
                            ![id] = Append(@, BackoffDelay(local[id].attempt))]
       ELSE /\ Writing(id, ErrorWrites(msg), "done")
            /\ UNCHANGED slept
    /\ outcomes' = [outcomes EXCEPT ![id] = Append(@, msg)]
    /\ UNCHANGED <<downloads, calls, retryWrites, hookCalls, response,
                   seenTerminal, pool>>
    /\ UNCHANGED pureVars

\* lines 155-157: time.sleep returns, then status is set and the loop continues
SleepElapsed(id) ==
    /\ pc[id] = "sleep"
    /\ pc' = [pc EXCEPT ![id] = "writing"]
    /\ local' = [local EXCEPT ![id].pending = RetryWrites,
                              ![id].next = "attempt",
                              ![id].attempt = @ + 1]
    /\ UNCHANGED <<downloads, calls, outcomes, slept, retryWrites, hookCalls, response,
                   seenTerminal, pool>>
    /\ UNCHANGED pureVars

\* the steps of the thread of id, with the engine's results drawn from the
\* given sets and at most hooks progress callbacks
ThreadWith(id, infos, events, hooks, paths, msgs) ==
    \/ CreateRecord(id)
    \/ \E info \in infos : FetchOk(id, info)
    \/ \E msg \in msgs : FetchFail(id, msg)
    \/ Write(id)
    \/ BeginAttempt(id)
    \/ \E d \in events : hookCalls[id] < hooks /\ HookCall(id, d)
    \/ \E path \in paths : DownloadOk(id, path)
    \/ \E msg \in msgs : DownloadFail(id, msg)
    \/ SleepElapsed(id)

Thread(id) ==
    ThreadWith(id, MetaInfos, HookEvents, MaxHooks, EnginePaths, ErrorMessages)

Next ==
    \/ \E req \in Requests : start_download(req)
    \/ \E id \in DownloadIds \cup {UnknownId} : get_progress(id)
    \/ \E id \in DownloadIds \cup {UnknownId}, exists \in BOOLEAN :
          get_file(id, exists)
    \/ \E id \in DownloadIds : Thread(id)

Spec == Init /\ [][Next]_vars

----------------------------------------------------------------------------
(* Several jobs at once: uuid4 hands out every identifier of the model, and *)
(* the threads of the jobs interleave step by step.  The handlers that only *)
(* read the registry are left out of these runs.                            *)

ConcurrentInit ==
    /\ downloads = [id \in {} |-> NewRecord]
    /\ pc = [id \in DownloadIds |-> "unused"]
    /\ local = [id \in DownloadIds |-> NoLocals]
    /\ calls = [id \in DownloadIds |-> 0]
    /\ outcomes = [id \in DownloadIds |-> << >>]
    /\ slept = [id \in DownloadIds |-> << >>]
    /\ retryWrites = [id \in DownloadIds |-> 0]
    /\ hookCalls = [id \in DownloadIds |-> 0]
    /\ response = NoResponse
    /\ seenTerminal = [id \in DownloadIds |-> {}]
    /\ pool = DownloadIds
    /\ stage = "off" /\ input = << >> /\ result = << >>

\* the engine's results in these runs: one info, a progress report and the
\* "finished" signal, one path, a file-locking error and another error
ConcurrentEvents ==
    {d \in HookEvents : d.status = "finished" \/ d.total_bytes = 4}

ConcurrentMessages == {WinError32Msg, OtherMsg}

ConcurrentRequests ==
    {req \in Requests : req.url # "" /\ req.has_quality /\ req.quality = 0}

ConcurrentThread(id) ==
    ThreadWith(id, {info \in MetaInfos : info.has_title}, ConcurrentEvents,
               MaxConcurrentHooks, {<<"t", ".", "w">>}, ConcurrentMessages)

ThreadsNext ==
    \/ \E req \in ConcurrentRequests : start_download(req)
    \/ \E id \in DownloadIds : ConcurrentThread(id)

ConcurrentSpec == ConcurrentInit /\ [][ThreadsNext]_vars

----------------------------------------------------------------------------
(* One job under a fair scheduler: the thread that start_download has       *)
(* started keeps being scheduled, every call into the engine returns or     *)
(* raises, and every time.sleep returns.  Each of these is a step of        *)
(* Thread(id), which stays enabled until the thread has ended.              *)

JobNext ==
    \/ \E req \in Requests : start_download(req)
    \/ \E id \in DownloadIds : Thread(id)

FairSpec ==
    /\ Init
    /\ [][JobNext]_vars
    /\ \A id \in DownloadIds : WF_vars(Thread(id))

----------------------------------------------------------------------------
(* Format selection on its own: the quality normalisation of               *)
(* start_download followed by the options download_video builds, for every *)
(* request and every set of cookie files on disk.                          *)

\* lines 75-88: format_str; the numbers are the f-string's {quality_height}
FormatString(quality_height) ==
    IF quality_height = 0
    THEN <<"bestaudio/best">>
    ELSE <<"bestvideo[height<=", quality_height,
           "][ext=mp4]+bestaudio[ext=m4a]/bestvideo[height<=", quality_height,
           "]+bestaudio/best[height<=", quality_height, "]/best">>

\* lines 79-88: postprocessors
Postprocessors(quality_height) ==
    IF quality_height = 0
    THEN << [key |-> "FFmpegExtractAudio", preferredcodec |-> "mp3",
             preferredquality |-> "320"] >>
    ELSE << >>

\* lines 106-109, in the order in which they are tried
cookie_locations == <<"/etc/secrets/cookies.txt", "cookies.txt">>

\* lines 91-121: ydl_opts as passed to the engine; on_disk is the set of
\* paths for which os.path.exists answers True
YdlOpts(quality_height, on_disk) ==
    LET base == [format |-> FormatString(quality_height),
                 outtmpl |-> "downloads/%(title)s.%(ext)s",
                 quiet |-> TRUE, no_warnings |-> TRUE, extract_flat |-> FALSE,
                 retries |-> 10, file_access_retries |-> 10,
                 fragment_retries |-> 10]
        found == {i \in 1..Len(cookie_locations) : cookie_locations[i] \in on_disk}
        withCookie ==
            IF found = {} THEN base
            ELSE SetItem(base, "cookiefile",
                         cookie_locations[CHOOSE i \in found :
                                             \A j \in found : i <= j])
        withPost ==
            IF Postprocessors(quality_height) # << >>
            THEN SetItem(withCookie, "postprocessors",
                         Postprocessors(quality_height))
            ELSE withCookie
    IN  \* 'merge_output_format' is None for quality_height <= 0, and line 121
        \* drops the None values
        IF quality_height > 0
        THEN SetItem(withPost, "merge_output_format", "mp4")
        ELSE withPost

\* the requests and the disks of the runs
QualityInputs ==
    { [req |-> [url |-> u, has_quality |-> h, quality |-> q], on_disk |-> c] :
        u \in {"", "u", "v"}, h \in BOOLEAN,
        q \in {0, 1, 720, 4320, 4321, 10000},
        c \in SUBSET {cookie_locations[i] : i \in 1..Len(cookie_locations)} }

\* no job runs while a pure function is checked
NoJobs ==
    /\ downloads = [id \in {} |-> NewRecord]
    /\ pc = [id \in DownloadIds |-> "unused"]
    /\ local = [id \in DownloadIds |-> NoLocals]
    /\ calls = [id \in DownloadIds |-> 0]
    /\ outcomes = [id \in DownloadIds |-> << >>]
    /\ slept = [id \in DownloadIds |-> << >>]
    /\ retryWrites = [id \in DownloadIds |-> 0]
    /\ hookCalls = [id \in DownloadIds |-> 0]
    /\ response = NoResponse
    /\ seenTerminal = [id \in DownloadIds |-> {}]
    /\ pool = {}

QualityInit ==
    /\ NoJobs
    /\ stage = "request"
    /\ input \in QualityInputs
    /\ result = << >>

\* start_download, lines 261-276: the arguments the thread is started with,
\* or the 400 for a missing URL
Normalise ==
    /\ stage = "request"
    /\ IF input.req.url = ""
       THEN stage' = "rejected" /\ result' = << >>
       ELSE /\ stage' = "normalised"
            /\ result' = [url |-> input.req.url,
                          quality_height |-> ClampQuality(input.req)]
    /\ UNCHANGED <<input, jobVars>>

\* download_video, lines 74-121
BuildOptions ==
    /\ stage = "normalised"
    /\ stage' = "built"
    /\ result' = YdlOpts(result.quality_height, input.on_disk)
    /\ UNCHANGED <<input, jobVars>>

QualityNext == Normalise \/ BuildOptions

QualitySpec == QualityInit /\ [][QualityNext]_vars

----------------------------------------------------------------------------
(* sanitize_filename on its own: a title is drawn, cleaned, and the result *)
(* is cleaned once more.                                                   *)

MaxTitleLen == 3

\* '<', '/', an emoji of the range of line 32, the first code point above
\* the basic plane, space, tab, no-break space, 'a' and e-acute
TitleChars == {60, 47, 128512, 65536, 32, 9, 160, 97, 233}

Titles == UNION {[1..n -> TitleChars] : n \in 0..MaxTitleLen}

SanitizeInit ==
    /\ NoJobs
    /\ stage = "title"
    /\ input \in Titles
    /\ result = << >>

\* sanitize_filename(s)
SanitizeOnce ==
    /\ stage = "title"
    /\ stage' = "once"
    /\ result' = [once |-> sanitize_filename(input)]
    /\ UNCHANGED <<input, jobVars>>

\* sanitize_filename(sanitize_filename(s))
SanitizeAgain ==
    /\ stage = "once"
    /\ stage' = "twice"
    /\ result' = [once |-> result.once,
                  twice |-> sanitize_filename(result.once)]
    /\ UNCHANGED <<input, jobVars>>

SanitizeNext == SanitizeOnce \/ SanitizeAgain

SanitizeSpec == SanitizeInit /\ [][SanitizeNext]_vars

----------------------------------------------------------------------------
(* Properties *)

Records == DOMAIN downloads

\* the last response is a poll that found a record
Polled == response.op = "progress" /\ response.code = 200

\* the thread of id stands between line 144 and line 145
BeforeFlip(id) ==
    /\ pc[id] = "writing"
    /\ Head(local[id].pending)[1] = "status"
    /\ Head(local[id].pending)[2] = "completed"

Contention == {WinError32Msg, BeingUsedMsg}

C2_ErrorIffStatusError ==
    \A id \in Records :
        downloads[id].error \notin {None, ""} <=> downloads[id].status = "error"

\* C3: no record, and no record returned by a poll, has status 'completed'
\* and an empty filename (the engine's output paths are non-empty).
C3_CompletedHasFilename ==
    /\ \A id \in Records :
          downloads[id].status = "completed" => downloads[id].filename # << >>
    /\ (Polled /\ response.body.status = "completed")
          => response.body.filename # << >>

\* a poll saw 'completed' between line 145 and line 146
C3_Witness ==
    /\ Polled
    /\ response.body.status = "completed"
    /\ response.body.progress # 1000
    /\ response.body.filename # << >>

C5_TerminalPollsIdentical ==
    (Polled /\ response.body.status \in Terminal)
        => response.body \in seenTerminal[response.id]

\* C6, as stated: a poll for an identifier that start_download has handed
\* out finds a record.
C6_PollAfterStartFindsRecord ==
    (response.op = "progress" /\ response.id \in DownloadIds
        /\ pc[response.id] # "unused")
        => response.code = 200

\* C7: every record's status is one of the six, and a poll for an identifier
\* with no record answers 404 and leaves the registry as it is.
C7_SixStatusesAndUnknown404 ==
    /\ [](\A id \in Records : downloads[id].status \in Statuses)
    /\ [][(response' # response /\ response'.op = "progress"
              /\ response'.id \notin Records)
            => (response'.code = 404 /\ downloads' = downloads)]_vars

\* a poll for an unknown identifier answered 404 while a job was retrying
C7_Witness ==
    /\ response.op = "progress" /\ response.id = UnknownId
    /\ response.code = 404
    /\ UnknownId \notin Records
    /\ \E id \in Records : downloads[id].status = "retrying"

\* C8: no job makes more than 3 download calls, and a job all of whose
\* download calls failed with file-access contention ends after exactly 3
\* calls in 'error' with the message of the last failure.
C8_ThreeAttemptsThenError ==
    \A id \in DownloadIds :
        /\ calls[id] <= 3
        /\ (/\ pc[id] = "done"
            /\ outcomes[id] # << >>
            /\ \A i \in 1..Len(outcomes[id]) : outcomes[id][i] \in Contention)
           => /\ calls[id] = 3
              /\ Len(outcomes[id]) = 3
              /\ downloads[id].status = "error"
              /\ downloads[id].error = outcomes[id][3]

\* three contention failures, the last with another message than the first
C8_Witness ==
    \E id \in Records :
        /\ pc[id] = "done"
        /\ Len(outcomes[id]) = 3
        /\ \A i \in 1..3 : outcomes[id][i] \in Contention
        /\ outcomes[id][3] # outcomes[id][1]
        /\ downloads[id].error = outcomes[id][3]

\* C9, as stated: a job whose first 3 download calls fail with contention
\* ends 'completed' after exactly 3 attempts, two writes of 'retrying' and
\* waits of 1 and 2.
C9_ThreeFailuresThenCompleted ==
    \A id \in DownloadIds :
        (/\ pc[id] = "done"
         /\ Len(outcomes[id]) >= 3
         /\ \A i \in 1..3 : outcomes[id][i] \in Contention)
        => /\ downloads[id].status = "completed"
           /\ calls[id] = 3
           /\ retryWrites[id] = 2
           /\ slept[id] = <<1, 2>>

\* C9, amended: after 2 contention failures the job makes a third download
\* call, and when that call succeeds the job ends 'completed' after exactly
\* 3 attempts, with line 156 executed twice and waits of 1 and 2.
C9_TwoFailuresThenCompleted ==
    \A id \in DownloadIds :
        /\ (/\ Len(outcomes[id]) = 2
            /\ \A i \in 1..2 : outcomes[id][i] \in Contention)
           => /\ pc[id] \in {"sleep", "writing", "attempt", "download"}
              /\ downloads[id].status \notin Terminal
              /\ calls[id] \in {2, 3}
        /\ (/\ pc[id] = "done"
            /\ Len(outcomes[id]) = 3
            /\ \A i \in 1..2 : outcomes[id][i] \in Contention
            /\ outcomes[id][3] = "ok")
           => /\ downloads[id].status = "completed"
              /\ calls[id] = 3
              /\ retryWrites[id] = 2
              /\ slept[id] = <<1, 2>>

\* two contention failures, then a success, and the thread has ended
C9_Witness ==
    \E id \in Records :
        /\ pc[id] = "done"
        /\ Len(outcomes[id]) = 3
        /\ \A i \in 1..2 : outcomes[id][i] \in Contention
        /\ outcomes[id][3] = "ok"
        /\ downloads[id].status = "completed"

\* C10: a download call that fails with another message than contention is
\* the job's last call; no wait follows it, the only writes that follow it
\* are those of the top-level handler, and the job ends in 'error' with that
\* message.
C10_OnlyContentionRetried ==
    \A id \in DownloadIds :
        \A i \in 1..Len(outcomes[id]) :
            outcomes[id][i] = OtherMsg
            => /\ i = Len(outcomes[id])
               /\ calls[id] = i
               /\ Len(slept[id]) = i - 1
               /\ pc[id] \in {"writing", "done"}
               /\ pc[id] = "writing"
                    => /\ local[id].next = "done"
                       /\ \/ local[id].pending = ErrorWrites(OtherMsg)
                          \/ local[id].pending = Tail(ErrorWrites(OtherMsg))
               /\ pc[id] = "done"
                    => /\ downloads[id].status = "error"
                       /\ downloads[id].error = OtherMsg

\* the second download call, made after one retry, failed with the other
\* message and the job has ended
C10_Witness ==
    \E id \in Records :
        /\ pc[id] = "done"
        /\ Len(outcomes[id]) = 2
        /\ outcomes[id][1] \in Contention
        /\ outcomes[id][2] = OtherMsg
        /\ downloads[id].status = "error"

\* C11: a request to get_file leaves the registry as it is; for an
\* identifier with no record it answers 404, for a record whose status is
\* not 'completed' it answers 400, and only for a 'completed' record does it
\* serve, and then that record's file.
C11_FileOnlyWhenCompleted ==
    [][(response' # response /\ response'.op = "file")
         => /\ downloads' = downloads
            /\ response'.id \notin Records
                 => response'.code = 404
            /\ (response'.id \in Records
                  /\ downloads[response'.id].status # "completed")
                 => (response'.code = 400
                       /\ DOMAIN response'.body = {"error"})
            /\ response'.code = 200
                 => /\ response'.id \in Records
                    /\ downloads[response'.id].status = "completed"
                    /\ response'.body.file = downloads[response'.id].filename
                    /\ response'.body.file # << >>]_vars

\* get_file answered 400 for a job whose thread stood between line 144 and
\* line 145: the file name was there, the status was not
C11_Witness ==
    /\ response.op = "file" /\ response.code = 400
    /\ response.id \in Records
    /\ BeforeFlip(response.id)
    /\ downloads[response.id].filename # << >>

\* C12: a request with quality above 4320, or with no quality, is given the
\* format string and the mp4 container of quality 4320; a request with
\* quality 0 is given the audio-only format, the MP3 post-processor and no
\* container, whatever its URL.
C12_QualityClampAndAudioOnly ==
    stage = "built" =>
        /\ (~input.req.has_quality \/ input.req.quality >= 4320)
             => /\ result.format =
                     <<"bestvideo[height<=", 4320,
                       "][ext=mp4]+bestaudio[ext=m4a]/bestvideo[height<=", 4320,
                       "]+bestaudio/best[height<=", 4320, "]/best">>
                /\ "merge_output_format" \in DOMAIN result
                /\ result.merge_output_format = "mp4"
                /\ "postprocessors" \notin DOMAIN result
        /\ (input.req.has_quality /\ input.req.quality = 0)
             => /\ result.format = <<"bestaudio/best">>
                /\ "merge_output_format" \notin DOMAIN result
                /\ "postprocessors" \in DOMAIN result
                /\ Len(result.postprocessors) = 1
                /\ result.postprocessors[1].key = "FFmpegExtractAudio"
                /\ result.postprocessors[1].preferredcodec = "mp3"

\* the options built for a request with quality 10000
C12_Witness ==
    /\ stage = "built"
    /\ input.req.has_quality /\ input.req.quality = 10000
    /\ result.merge_output_format = "mp4"

\* the step is one of the thread of id (the thread moves on, makes one of
\* its pending writes, or takes a progress callback)
ThreadStep(id) ==
    /\ pc[id] # "unused"
    /\ \/ pc'[id] # pc[id]
       \/ Len(local'[id].pending) # Len(local[id].pending)
       \/ hookCalls'[id] # hookCalls[id]

\* C13: a thread that has ended has ended in 'completed', or in 'error'
\* with the message of the exception that ended it; and no step of a job's
\* thread creates, removes or changes the record of another job.
C13_JobsAreIsolated ==
    /\ [](\A id \in DownloadIds :
            pc[id] = "done"
              => \/ /\ downloads[id].status = "completed"
                    /\ outcomes[id] # << >>
                    /\ outcomes[id][Len(outcomes[id])] = "ok"
                 \/ /\ downloads[id].status = "error"
                    /\ downloads[id].error \in ErrorMessages
                    /\ outcomes[id] # << >>
                         => outcomes[id][Len(outcomes[id])] = downloads[id].error)
    /\ [][\A id \in DownloadIds :
            ThreadStep(id)
              => \A other \in DownloadIds \ {id} :
                    /\ other \in DOMAIN downloads' <=> other \in Records
                    /\ other \in Records => downloads'[other] = downloads[other]]_vars

\* one job has failed and ended while the other, untouched, is being
\* post-processed after its "finished" callback
C13_Witness ==
    \E id \in Records, other \in Records :
        /\ id # other
        /\ pc[id] = "done"
        /\ downloads[id].status = "error"
        /\ downloads[other].status = "processing"
        /\ downloads[other].error = None

\* C14: under fair scheduling, every job that start_download has started
\* eventually has a record whose status is 'completed' or 'error'.
C14_EveryJobEnds ==
    \A id \in DownloadIds :
        (pc[id] = "spawned")
            ~> (id \in Records /\ downloads[id].status \in Terminal)

\* a job has ended 'completed' on its third attempt, after two waits
C14_Witness ==
    \E id \in Records :
        /\ pc[id] = "done"
        /\ downloads[id].status = "completed"
        /\ Len(slept[id]) = 2
        /\ calls[id] = 3

\* C15: cleaning a cleaned title changes nothing, and a cleaned title has
\* no reserved character, no code point above the basic plane, no two
\* adjacent whitespace characters and no whitespace at either end.
C15_SanitizeIdempotent ==
    /\ stage \in {"once", "twice"} =>
         LET out == result.once
         IN  /\ \A i \in 1..Len(out) :
                   /\ out[i] \notin ReservedChars
                   /\ out[i] < 65536
             /\ \A i \in 1..(Len(out) - 1) :
                   ~(out[i] \in Whitespace /\ out[i + 1] \in Whitespace)
             /\ out # << >> =>
                   /\ out[1] \notin Whitespace
                   /\ out[Len(out)] \notin Whitespace
    /\ stage = "twice" => result.twice = result.once

\* a title with a reserved character and whitespace has been cleaned twice
\* into something that is not empty
C15_Witness ==
    /\ stage = "twice"
    /\ \E i \in 1..Len(input) : input[i] \in ReservedChars
    /\ \E i \in 1..Len(input) : input[i] \in Whitespace
    /\ result.once # << >>
    /\ result.once # input

\* C16, as stated: every change of a record's status is a transition of the
\* documented state machine: starting->downloading, downloading->processing,
\* processing->completed, downloading->retrying, retrying->downloading,
\* retrying->error, and starting, downloading or processing ->error.
C16_OnlyDocumentedTransitions ==
    [][\A id \in Records :
          (id \in DOMAIN downloads'
           /\ downloads'[id].status # downloads[id].status)
              => <<downloads[id].status, downloads'[id].status>> \in
                    { <<"starting", "downloading">>,
                      <<"downloading", "processing">>,
                      <<"processing", "completed">>,
                      <<"downloading", "retrying">>,
                      <<"retrying", "downloading">>,
                      <<"retrying", "error">>,
                      <<"starting", "error">>,
                      <<"downloading", "error">>,
                      <<"processing", "error">> }]_vars

\* C17, as stated: while the thread is suspended in a backoff wait its
\* record's status is 'retrying', and the wait before retry number k lasts
\* 2^k time units.
C17_RetryingDuringBackoff ==
    \A id \in Records :
        pc[id] = "sleep" =>
            /\ downloads[id].status = "retrying"
            /\ slept[id][Len(slept[id])] = Pow2(local[id].attempt)

\* C18, as stated: a step that changes the progress of a record whose status
\* is 'downloading' or 'retrying' does not lower it.
C18_ProgressNeverDecreases ==
    [][\A id \in Records :
          (id \in DOMAIN downloads'
           /\ downloads[id].status \in {"downloading", "retrying"})
              => downloads'[id].progress >= downloads[id].progress]_vars

\* C19, as stated: every record's progress lies in 0..100 (held in tenths
\* of a percent: 0..1000).
C19_ProgressInRange ==
    \A id \in Records :
        downloads[id].progress >= 0 /\ downloads[id].progress <= 1000

\* the total of callback d is unknown: neither total_bytes nor
\* total_bytes_estimate is a positive number
UnknownTotal(d) == d.total_bytes <= 0 /\ d.total_bytes_estimate <= 0

\* C20: a 'downloading' callback with an unknown total makes no write at
\* all, so progress, status, filename, error, speed and eta of its job stay
\* as they are; each write of a 'downloading' callback with a known total
\* changes nothing but progress, speed and eta of its job's record.
C20_DownloadingCallbackFrame ==
    [][\A id \in Records :
          /\ \A e \in HookEvents :
                (e.status = "downloading" /\ UnknownTotal(e) /\ HookCall(id, e))
                    => /\ local'[id].pending = << >>
                       /\ pc'[id] = "download"
                       /\ downloads' = downloads
          /\ (/\ pc[id] = "writing"
              /\ local[id].next = "download"
              /\ local[id].d.status = "downloading")
                => /\ ~UnknownTotal(local[id].d)
                   /\ DOMAIN downloads' = DOMAIN downloads
                   /\ DOMAIN downloads'[id] = DOMAIN downloads[id]
                   /\ \A k \in DOMAIN downloads[id] \ {"progress", "speed", "eta"} :
                         downloads'[id][k] = downloads[id][k]]_vars

\* the first callback of a job has left progress, speed and eta at 0 and
\* status at 'downloading', which only a 'downloading' callback with an
\* unknown total does; the second, with a known total, is about to write
C20_Witness ==
    \E id \in Records :
        /\ hookCalls[id] = 2
        /\ pc[id] = "writing"
        /\ local[id].next = "download"
        /\ local[id].d.status = "downloading"
        /\ ~UnknownTotal(local[id].d)
        /\ Len(local[id].pending) = 3
        /\ downloads[id].progress = 0
        /\ downloads[id].speed = 0
        /\ downloads[id].eta = 0
        /\ downloads[id].status = "downloading"

====
